---------------------------- MODULE Spec2Model ----------------------------
(***************************************************************************)
(* A model of webpack.config.js: the certificate helper createHTTPSConfig  *)
(* run by several webpack processes over one working directory, the        *)
(* configuration object and the exported factory, the HEAD handler of the  *)
(* development server, and the LodashTemplatePlugin hook.                   *)
(*                                                                         *)
(* Conventions.  An environment variable is << >> when it is not set and   *)
(* <<v>> when it is set to v.  A string the code searches or tests for     *)
(* emptiness is a sequence of one-character strings; every other string is *)
(* a TLA+ string.  An action carries the line of the statement it models.  *)
(***************************************************************************)
EXTENDS Integers, Sequences, FiniteSets, TLC

\* Number of webpack processes started in the same working directory.
NProcs == 3

Procs == 1..NProcs

Unset == << >>

NodeEnvValues == {Unset, <<"production">>, <<"development">>}

\* The process whose configuration object and HTML pages are followed.
Main == 1

\* Longest BASE_ASSETS_PATH tried.
MaxPathLen == 4

\* Longest page template tried, in tokens.
MaxHtmlLen == 2

\* Last instant of the development server's clock, in ticks.
MaxClock == 4

\* Clock ticks in one second, the resolution of Date.prototype.toGMTString.
TicksPerSecond == 2

\* The characters BASE_ASSETS_PATH and GENERATE_SMOKE_TESTS are made of.
Chars == {"a", ":", "/"}

StringsUpTo(n) == UNION {[1..k -> Chars] : k \in 0..n}

\* process.env: the variables webpack.config.js reads.
EnvOf(nodeEnv, basePath, smoke, expires, token) ==
    [NODE_ENV |-> nodeEnv, BASE_ASSETS_PATH |-> basePath,
     GENERATE_SMOKE_TESTS |-> smoke, ORIGIN_TRIAL_EXPIRES |-> expires,
     ORIGIN_TRIAL_TOKEN |-> token, JANUS_SERVER |-> Unset]

VARIABLES
    env,        \* [Procs -> process.env of each process, after dotenv (line 2)]
    pc,         \* [Procs -> position of the process in webpack.config.js]
    certsDir,   \* TRUE when the directory certs/ exists
    keyPem,     \* contents of certs/key.pem, NoFile when absent
    certPem,    \* contents of certs/cert.pem, NoFile when absent
    pems,       \* [Procs -> the pair selfsigned.generate gave the process, or NoPems]
    key,        \* [Procs -> the local "key" of the reuse branch]
    ret,        \* [Procs -> the value createHTTPSConfig returned, or NoRet]
    ops,        \* history: [Procs -> the set of calls the process has made]
    doneBefore, \* history: [Procs -> the processes that had returned when it started]
    config,     \* the object "config" of Main (line 76), NoConfig before it is built
    exported,   \* what the exported factory returned to Main's webpack, or NoExport
    applied,    \* the produced configurations whose plugins have been applied
    hooks,      \* [configuration -> handlers of html-webpack-plugin-before-html-processing]
    pages,      \* [<<configuration, HTML plugin>> -> stage and hook data of the page]
    tpl,        \* the page source html-loader hands to html-webpack-plugin
    hpc,        \* development server: position of the request in flight
    req,        \* development server: the request in flight, or NoReq
    res,        \* development server: the response object of the request
    laterReq,   \* development server: the request the later handlers received
    now         \* development server: the clock, in ticks

certVars == <<env, pc, certsDir, keyPem, certPem, pems, key, ret, ops, doneBefore>>
configVars == <<config, exported>>
htmlVars == <<applied, hooks, pages, tpl>>
headVars == <<hpc, req, res, laterReq, now>>
vars == <<certVars, configVars, htmlVars, headVars>>

NoFile == [type |-> "absent"]
NoPems == [type |-> "none"]
NoRet  == [type |-> "none"]
NoKey  == [type |-> "none"]
RetFalse == [type |-> "false"]

\* selfsigned.generate: a fresh pair; process p generates at most once, so
\* the pair is identified by p.
SelfsignedGenerate(p) ==
    [private |-> [type |-> "string", part |-> "private", pair |-> p],
     cert    |-> [type |-> "string", part |-> "cert",    pair |-> p]]

\* fs.readFileSync without an encoding returns a Buffer of the file's bytes.
ReadFileSync(file) == [type |-> "Buffer", part |-> file.part, pair |-> file.pair]

\* The bytes of a string or a Buffer.
Contents(v) == [part |-> v.part, pair |-> v.pair]

IsProductionLoose(v) == v # <<"development">>

\* line 13: process.env.NODE_ENV === "production"
IsProduction(v) == v = <<"production">>

MkdirSyncRecursive(exists) == TRUE

\* line 50: fs.mkdirSync throws EEXIST when the directory exists.
MkdirSyncSucceeds(exists) == ~exists

KeyFileDataSwapped(pm) == pm.cert

\* line 52: the data written to certs/key.pem.
KeyFileData(pm) == pm.private

\* The module is loaded and line 91 calls createHTTPSConfig().
Invoke(p) ==
    /\ pc[p] = "idle"
    /\ pc' = [pc EXCEPT ![p] = "L13"]
    /\ doneBefore' = [doneBefore EXCEPT ![p] = {q \in Procs : pc[q] = "done"}]
    /\ UNCHANGED <<env, certsDir, keyPem, certPem, pems, key, ret, ops,
                   configVars, htmlVars, headVars>>

\* lines 13-15
CheckEnv(p) ==
    /\ pc[p] = "L13"
    /\ IF IsProduction(env[p].NODE_ENV)
       THEN /\ ret' = [ret EXCEPT ![p] = RetFalse]
            /\ pc' = [pc EXCEPT ![p] = "done"]
       ELSE /\ ret' = ret
            /\ pc' = [pc EXCEPT ![p] = "L20"]
    /\ UNCHANGED <<env, certsDir, keyPem, certPem, pems, key, ops, doneBefore,
                   configVars, htmlVars, headVars>>

\* line 20
ExistsSync(p) ==
    /\ pc[p] = "L20"
    /\ pc' = [pc EXCEPT ![p] = IF certsDir THEN "L21" ELSE "L26"]
    /\ ops' = [ops EXCEPT ![p] = @ \cup {"existsSync"}]
    /\ UNCHANGED <<env, certsDir, keyPem, certPem, pems, key, ret, doneBefore,
                   configVars, htmlVars, headVars>>

\* line 21: readFileSync throws ENOENT when the file is absent.
ReadKey(p) ==
    /\ pc[p] = "L21"
    /\ ops' = [ops EXCEPT ![p] = @ \cup {"readFileSync"}]
    /\ IF keyPem = NoFile
       THEN /\ pc' = [pc EXCEPT ![p] = "threw"]
            /\ key' = key
       ELSE /\ pc' = [pc EXCEPT ![p] = "L22"]
            /\ key' = [key EXCEPT ![p] = ReadFileSync(keyPem)]
    /\ UNCHANGED <<env, certsDir, keyPem, certPem, pems, ret, doneBefore,
                   configVars, htmlVars, headVars>>

\* lines 22-24
ReadCert(p) ==
    /\ pc[p] = "L22"
    /\ ops' = [ops EXCEPT ![p] = @ \cup {"readFileSync"}]
    /\ IF certPem = NoFile
       THEN /\ pc' = [pc EXCEPT ![p] = "threw"]
            /\ ret' = ret
       ELSE /\ pc' = [pc EXCEPT ![p] = "done"]
            /\ ret' = [ret EXCEPT ![p] =
                  [type |-> "pair", key |-> key[p], cert |-> ReadFileSync(certPem)]]
    /\ UNCHANGED <<env, certsDir, keyPem, certPem, pems, key, doneBefore,
                   configVars, htmlVars, headVars>>

\* lines 26-48
Generate(p) ==
    /\ pc[p] = "L26"
    /\ pems' = [pems EXCEPT ![p] = SelfsignedGenerate(p)]
    /\ ops' = [ops EXCEPT ![p] = @ \cup {"generate"}]
    /\ pc' = [pc EXCEPT ![p] = "L50"]
    /\ UNCHANGED <<env, certsDir, keyPem, certPem, key, ret, doneBefore,
                   configVars, htmlVars, headVars>>

\* line 50
MkdirSync(p) ==
    /\ pc[p] = "L50"
    /\ ops' = [ops EXCEPT ![p] = @ \cup {"mkdirSync"}]
    /\ IF MkdirSyncSucceeds(certsDir)
       THEN /\ certsDir' = TRUE
            /\ pc' = [pc EXCEPT ![p] = "L51"]
       ELSE /\ certsDir' = certsDir
            /\ pc' = [pc EXCEPT ![p] = "threw"]
    /\ UNCHANGED <<env, keyPem, certPem, pems, key, ret, doneBefore,
                   configVars, htmlVars, headVars>>

\* line 51
WriteCert(p) ==
    /\ pc[p] = "L51"
    /\ certPem' = pems[p].cert
    /\ ops' = [ops EXCEPT ![p] = @ \cup {"writeFileSync"}]
    /\ pc' = [pc EXCEPT ![p] = "L52"]
    /\ UNCHANGED <<env, certsDir, keyPem, pems, key, ret, doneBefore,
                   configVars, htmlVars, headVars>>

\* lines 52-57
WriteKey(p) ==
    /\ pc[p] = "L52"
    /\ keyPem' = KeyFileData(pems[p])
    /\ ops' = [ops EXCEPT ![p] = @ \cup {"writeFileSync"}]
    /\ ret' = [ret EXCEPT ![p] =
          [type |-> "pair", key |-> pems[p].private, cert |-> pems[p].cert]]
    /\ pc' = [pc EXCEPT ![p] = "done"]
    /\ UNCHANGED <<env, certsDir, certPem, pems, key, doneBefore,
                   configVars, htmlVars, headVars>>

\* The process is killed, or a write fails, between two statements of the
\* generate-and-persist path (lines 26-52); nothing is rolled back.
Interrupt(p) ==
    /\ pc[p] \in {"L26", "L50", "L51", "L52"}
    /\ pc' = [pc EXCEPT ![p] = "killed"]
    /\ UNCHANGED <<env, certsDir, keyPem, certPem, pems, key, ret, ops, doneBefore,
                   configVars, htmlVars, headVars>>

\* One step of createHTTPSConfig in process p.
CertStep(p) ==
    \/ Invoke(p)
    \/ CheckEnv(p)
    \/ ExistsSync(p)
    \/ ReadKey(p)
    \/ ReadCert(p)
    \/ Generate(p)
    \/ MkdirSync(p)
    \/ WriteCert(p)
    \/ WriteKey(p)
    \/ Interrupt(p)

-----------------------------------------------------------------------------
(* Strings *)

\* String.prototype.indexOf, counting from 1; 0 when pat does not occur.
IndexOf(s, pat) ==
    LET at == {i \in 1..(Len(s) - Len(pat) + 1) : SubSeq(s, i, i + Len(pat) - 1) = pat}
    IN  IF at = {} THEN 0 ELSE CHOOSE i \in at : \A j \in at : i <= j

\* String.prototype.replace with a string pattern: the first occurrence only.
Replace(s, pat, rep) ==
    LET i == IndexOf(s, pat)
    IN  IF i = 0 THEN s
        ELSE SubSeq(s, 1, i - 1) \o rep \o SubSeq(s, i + Len(pat), Len(s))

\* The truth value JavaScript gives process.env.X: undefined and "" are falsy.
Truthy(v) == v # Unset /\ v[1] # << >>

\* Object.assign({}, a, b)
ObjectAssign(a, b) == b @@ a

-----------------------------------------------------------------------------
(* The configuration object, lines 76-225 *)

NoConfig == [type |-> "none"]
NoExport == [type |-> "none"]

\* line 85: process.env.BASE_ASSETS_PATH || ""
PublicPath(e) == IF Truthy(e.BASE_ASSETS_PATH) THEN e.BASE_ASSETS_PATH[1] ELSE << >>

DevtoolAlwaysInline(e) == "inline-source-map"

\* line 88
Devtool(e) == IF e.NODE_ENV = <<"production">> THEN "source-map" ELSE "inline-source-map"

\* line 150
ScssMinimize(e) == e.NODE_ENV = <<"production">>

\* line 164
CssMinimize(e) == e.NODE_ENV = <<"production">>

\* lines 114-181
Rules(e) ==
    << [test |-> "\\.html$", loader |-> "html-loader"],
       [test |-> "\\.js$", loader |-> "babel-loader"],
       [test |-> "\\.scss$", loader |-> "css-loader", minimize |-> ScssMinimize(e)],
       [test |-> "\\.css$", loader |-> "css-loader", minimize |-> CssMinimize(e)],
       [test |-> "\\.(png|jpg|gif|glb|ogg|woff2)$", loader |-> "file-loader"] >>

\* new HTMLWebpackPlugin(options): the plugin keeps the options over its
\* defaults; id is the identity of the object.
NewHTMLWebpackPlugin(id, options) ==
    [class |-> "HTMLWebpackPlugin", id |-> id,
     options |-> ObjectAssign([inject |-> "true"], options)]

RoomChunksOfLobby == <<"lobby">>

\* line 194
RoomChunks == <<"room">>

LodashImportsWithoutToken(e) ==
    [NODE_ENV |-> e.NODE_ENV, ORIGIN_TRIAL_EXPIRES |-> e.ORIGIN_TRIAL_EXPIRES]

\* lines 211-215
LodashImports(e) ==
    [NODE_ENV |-> e.NODE_ENV, ORIGIN_TRIAL_EXPIRES |-> e.ORIGIN_TRIAL_EXPIRES,
     ORIGIN_TRIAL_TOKEN |-> e.ORIGIN_TRIAL_TOKEN]

\* lines 183-224
Plugins(e) ==
    << NewHTMLWebpackPlugin(1, [filename |-> "index.html", template |-> "src/lobby.html",
                                chunks |-> <<"lobby">>]),
       NewHTMLWebpackPlugin(2, [filename |-> "room.html", template |-> "src/room.html",
                                chunks |-> RoomChunks, inject |-> "head"]),
       NewHTMLWebpackPlugin(3, [filename |-> "onboarding.html",
                                template |-> "src/onboarding.html",
                                chunks |-> <<"onboarding">>]),
       [class |-> "ExtractTextPlugin", id |-> 4,
        options |-> [filename |-> "[name]-[contenthash].css",
                     disable |-> e.NODE_ENV # <<"production">>]],
       [class |-> "LodashTemplatePlugin", id |-> 5,
        options |-> [imports |-> LodashImports(e)]],
       [class |-> "DefinePlugin", id |-> 6,
        options |-> [NODE_ENV |-> e.NODE_ENV, JANUS_SERVER |-> e.JANUS_SERVER]] >>

\* lines 76-225: the object built when the module is loaded; https is what
\* createHTTPSConfig returned.
Config(e, https) ==
    [entry |-> [lobby |-> "src/lobby.js", room |-> "src/room.js",
                onboarding |-> "src/onboarding.js"],
     output |-> [path |-> "public", filename |-> "[name]-[chunkhash].js",
                 publicPath |-> PublicPath(e)],
     mode |-> "development",
     devtool |-> Devtool(e),
     devServer |-> [open |-> TRUE, https |-> https, host |-> "0.0.0.0",
                    useLocalIp |-> TRUE, port |-> 8080, before |-> "app.head"],
     performance |-> [assetFilter |-> "assetFilter"],
     module |-> [rules |-> Rules(e)],
     plugins |-> Plugins(e)]

SmokeFilenameSame(filename) == filename

\* line 239
SmokeFilename(filename) == "smoke-" \o filename

\* line 232
SmokePublicPath(base) ==
    Replace(base, <<":", "/", "/">>, <<":", "/", "/", "s", "m", "o", "k", "e", "-">>)

\* lines 235-245: the plugin of the smoke configuration made from plugins[i].
SmokePlugin(plugins, i) ==
    IF plugins[i].class = "HTMLWebpackPlugin"
    THEN NewHTMLWebpackPlugin(Len(plugins) + i,
             ObjectAssign(plugins[i].options,
                          [filename |-> SmokeFilename(plugins[i].options.filename)]))
    ELSE plugins[i]

\* lines 229-246
SmokeConfig(e, c) ==
    ObjectAssign(c,
        [output |-> ObjectAssign(c.output,
                        [publicPath |-> SmokePublicPath(e.BASE_ASSETS_PATH[1])]),
         plugins |-> [i \in 1..Len(c.plugins) |-> SmokePlugin(c.plugins, i)]])

\* lines 227-252: the exported factory.
ModuleExports(e, c) ==
    IF Truthy(e.GENERATE_SMOKE_TESTS) /\ Truthy(e.BASE_ASSETS_PATH)
    THEN [array |-> TRUE, configs |-> <<c, SmokeConfig(e, c)>>]
    ELSE [array |-> FALSE, configs |-> <<c>>]

\* lines 76-225: createHTTPSConfig has returned and the object is complete.
BuildConfig ==
    /\ pc[Main] = "done"
    /\ config' = Config(env[Main], ret[Main])
    /\ pc' = [pc EXCEPT ![Main] = "loaded"]
    /\ UNCHANGED <<env, certsDir, keyPem, certPem, pems, key, ret, ops, doneBefore,
                   exported, htmlVars, headVars>>

\* webpack calls the exported function, lines 227-252.
CallFactory ==
    /\ pc[Main] = "loaded"
    /\ exported' = ModuleExports(env[Main], config)
    /\ pc' = [pc EXCEPT ![Main] = "exported"]
    /\ UNCHANGED <<env, certsDir, keyPem, certPem, pems, key, ret, ops, doneBefore,
                   config, htmlVars, headVars>>

\* The pair an earlier run left in certs/.
EarlierPair == SelfsignedGenerate(0)

\* The states of certs/ createHTTPSConfig leaves behind: never run, interrupted
\* after line 50, interrupted after line 51, completed.
CertsStates ==
    { [dir |-> FALSE, key |-> NoFile, cert |-> NoFile],
      [dir |-> TRUE,  key |-> NoFile, cert |-> NoFile],
      [dir |-> TRUE,  key |-> NoFile, cert |-> EarlierPair.cert],
      [dir |-> TRUE,  key |-> EarlierPair.private, cert |-> EarlierPair.cert] }

EnvValues ==
    {EnvOf(n, b, g, Unset, Unset) :
        n \in NodeEnvValues,
        b \in {Unset} \cup {<<s>> : s \in StringsUpTo(MaxPathLen)},
        g \in {Unset, << << >> >>, << <<"a">> >>}}

HtmlIdle ==
    /\ applied = {}
    /\ hooks = << >>
    /\ pages = << >>
    /\ tpl = << >>

HeadIdle ==
    /\ hpc = "wait"
    /\ req = [type |-> "none"]
    /\ res = [type |-> "none"]
    /\ laterReq = [type |-> "none"]
    /\ now = 0

InitCert ==
    /\ env \in [Procs -> {EnvOf(n, Unset, Unset, Unset, Unset) : n \in NodeEnvValues}]
    /\ pc = [p \in Procs |-> "idle"]
    /\ certsDir = FALSE
    /\ keyPem = NoFile
    /\ certPem = NoFile
    /\ pems = [p \in Procs |-> NoPems]
    /\ key = [p \in Procs |-> NoKey]
    /\ ret = [p \in Procs |-> NoRet]
    /\ ops = [p \in Procs |-> {}]
    /\ doneBefore = [p \in Procs |-> {}]
    /\ config = NoConfig
    /\ exported = NoExport
    /\ HtmlIdle
    /\ HeadIdle

NextCert ==
    \E p \in Procs : CertStep(p)

\* Several webpack processes run createHTTPSConfig over one working directory.
SpecCert == InitCert /\ [][NextCert]_vars

InitConfig ==
    /\ \E e \in EnvValues :
          env = [p \in Procs |-> IF p = Main THEN e
                                 ELSE EnvOf(Unset, Unset, Unset, Unset, Unset)]
    /\ pc = [p \in Procs |-> "idle"]
    /\ \E f \in CertsStates :
          /\ certsDir = f.dir
          /\ keyPem = f.key
          /\ certPem = f.cert
    /\ pems = [p \in Procs |-> NoPems]
    /\ key = [p \in Procs |-> NoKey]
    /\ ret = [p \in Procs |-> NoRet]
    /\ ops = [p \in Procs |-> {}]
    /\ doneBefore = [p \in Procs |-> {}]
    /\ config = NoConfig
    /\ exported = NoExport
    /\ HtmlIdle
    /\ HeadIdle

NextConfig ==
    \/ CertStep(Main)
    \/ BuildConfig
    \/ CallFactory

\* One webpack process loads webpack.config.js and calls the exported factory.
SpecConfig == InitConfig /\ [][NextConfig]_vars

-----------------------------------------------------------------------------
(* The development server's HEAD handler, lines 95-105 *)

Methods == {"GET", "HEAD", "POST"}

Paths == {"/", "/room.html", "/assets/a.png"}

NoReq == [type |-> "none"]

\* The response object before any handler has touched it.
FreshRes == [headers |-> << >>, body |-> << >>, sends |-> 0]

\* Date.prototype.toGMTString: the instant to the second.
ToGMTString(t) == [gmt |-> t \div TicksPerSecond]

\* res.append(field, value): adds the value to the header's values.
ResAppend(r, field, value) ==
    [r EXCEPT !.headers =
        (field :> (IF field \in DOMAIN r.headers THEN r.headers[field] ELSE << >>)
                      \o <<value>>) @@ r.headers]

\* res.send(body)
ResSend(r, body) == [r EXCEPT !.body = @ \o <<body>>, !.sends = @ + 1]

\* line 97: app.head("*", ...) routes the requests whose method is HEAD, on
\* every path.
RouteMatches(r) == r.method = "HEAD"

HandlerAnswersOthers(r) == r.method # "HEAD"

\* line 98
HandlerAnswers(r) == r.method = "HEAD"

\* A request reaches the handlers devServer.before registered.
Request(m, path) ==
    /\ hpc = "wait"
    /\ req' = [method |-> m, path |-> path]
    /\ res' = FreshRes
    /\ laterReq' = NoReq
    /\ hpc' = "routing"
    /\ UNCHANGED <<now, certVars, configVars, htmlVars>>

\* line 97: the router offers the request to the route.
Route ==
    /\ hpc = "routing"
    /\ IF RouteMatches(req)
       THEN /\ hpc' = "handler"
            /\ laterReq' = laterReq
       ELSE /\ hpc' = "later"
            /\ laterReq' = req
    /\ UNCHANGED <<req, res, now, certVars, configVars, htmlVars>>

\* lines 98-103
Handler ==
    /\ hpc = "handler"
    /\ IF HandlerAnswers(req)
       THEN /\ res' = ResSend(ResAppend(res, "Date", ToGMTString(now)), "")
            /\ hpc' = "answered"
            /\ laterReq' = laterReq
       ELSE /\ res' = res
            /\ hpc' = "later"
            /\ laterReq' = req
    /\ UNCHANGED <<req, now, certVars, configVars, htmlVars>>

\* The request is over; the server waits for the next one.
Finish ==
    /\ hpc \in {"answered", "later"}
    /\ hpc' = "wait"
    /\ req' = NoReq
    /\ res' = [type |-> "none"]
    /\ laterReq' = NoReq
    /\ UNCHANGED <<now, certVars, configVars, htmlVars>>

\* Time passes until the response is sent; the clock is read at line 99.
Tick ==
    /\ now < MaxClock
    /\ hpc \in {"wait", "routing", "handler"}
    /\ now' = now + 1
    /\ UNCHANGED <<hpc, req, res, laterReq, certVars, configVars, htmlVars>>

CertIdle ==
    /\ env = [p \in Procs |-> EnvOf(Unset, Unset, Unset, Unset, Unset)]
    /\ pc = [p \in Procs |-> "idle"]
    /\ certsDir = FALSE
    /\ keyPem = NoFile
    /\ certPem = NoFile
    /\ pems = [p \in Procs |-> NoPems]
    /\ key = [p \in Procs |-> NoKey]
    /\ ret = [p \in Procs |-> NoRet]
    /\ ops = [p \in Procs |-> {}]
    /\ doneBefore = [p \in Procs |-> {}]

InitHead ==
    /\ CertIdle
    /\ config = NoConfig
    /\ exported = NoExport
    /\ HtmlIdle
    /\ hpc = "wait"
    /\ req = NoReq
    /\ res = [type |-> "none"]
    /\ laterReq = NoReq
    /\ now = 0

NextHead ==
    \/ \E m \in Methods, path \in Paths : Request(m, path)
    \/ Route
    \/ Handler
    \/ Finish
    \/ Tick

\* The development server receives requests one after the other.
SpecHead == InitHead /\ [][NextHead]_vars

-----------------------------------------------------------------------------
(* LodashTemplatePlugin, lines 61-74, in the compilations of the build *)

Text(str) == [t |-> "text", v |-> str]

Interp(name) == [t |-> "interp", v |-> name]

\* What a page source is made of: text and <%= NAME %> delimiters.
TplTokens ==
    {Text("<p>"), Interp("NODE_ENV"), Interp("ORIGIN_TRIAL_EXPIRES"),
     Interp("ORIGIN_TRIAL_TOKEN"), Interp("JANUS_SERVER")}

Templates == UNION {[1..k -> TplTokens] : k \in 0..MaxHtmlLen}

\* What <%= NAME %> prints: nothing for undefined, the string otherwise.
Printed(value) == IF value = Unset THEN << >> ELSE <<Text(value[1])>>

RECURSIVE Render(_, _)
Render(html, imports) ==
    IF html = << >> THEN << >>
    ELSE (IF Head(html).t = "text" THEN <<Head(html)>>
          ELSE Printed(imports[Head(html).v]))
         \o Render(Tail(html), imports)

\* line 69: _.template(html, options)() compiles the source with the names of
\* options.imports in scope and runs it with no data; a name that is not in
\* scope throws a ReferenceError.
LodashTemplate(html, options) ==
    IF \E i \in DOMAIN html :
          html[i].t = "interp" /\ html[i].v \notin DOMAIN options.imports
    THEN [ok |-> FALSE, html |-> html]
    ELSE [ok |-> TRUE, html |-> Render(html, options.imports)]

\* lines 68-71: the handler LodashTemplatePlugin registers; the promise it
\* returns resolves to data, or rejects when the template throws.
LodashHook(options, data) ==
    LET r == LodashTemplate(data.html, options)
    IN  IF r.ok THEN [ok |-> TRUE, data |-> [data EXCEPT !.html = r.html]]
        ELSE [ok |-> FALSE, data |-> data]

\* The handlers of a hook run one after the other, each on the result of the
\* one before.
RECURSIVE Waterfall(_, _)
Waterfall(handlers, data) ==
    IF handlers = << >> THEN [ok |-> TRUE, data |-> data]
    ELSE LET r == LodashHook(Head(handlers), data)
         IN  IF r.ok THEN Waterfall(Tail(handlers), r.data) ELSE r

IsLodashTemplatePlugin(plugin) == plugin.class = "LodashTemplatePlugin"

OptionsOf(plugins) == [i \in DOMAIN plugins |-> plugins[i].options]

\* lines 66-72: apply(compiler) of each LodashTemplatePlugin of the
\* configuration registers its handler on the compilation.
HandlersOf(c) == OptionsOf(SelectSeq(c.plugins, IsLodashTemplatePlugin))

\* The data html-webpack-plugin hands to the hook for the page of plugin i of
\* configuration k.
HookData(k, i) ==
    [id |-> <<k, i>>,
     html |-> tpl,
     plugin |-> exported.configs[k].plugins[i].id,
     outputName |-> exported.configs[k].plugins[i].options.filename,
     publicPath |-> exported.configs[k].output.publicPath]

NoAsset == [type |-> "none"]

\* webpack applies the plugins of configuration k (lines 66-72) and the
\* compilation starts: each HTML plugin has its page to make.
ApplyPlugins(k) ==
    /\ pc[Main] = "exported"
    /\ k \in DOMAIN exported.configs
    /\ k \notin applied
    /\ applied' = applied \cup {k}
    /\ hooks' = (k :> HandlersOf(exported.configs[k])) @@ hooks
    /\ pages' = [o \in {<<k, i>> : i \in {j \in DOMAIN exported.configs[k].plugins :
                            exported.configs[k].plugins[j].class = "HTMLWebpackPlugin"}}
                   |-> [stage |-> "pending", data |-> HookData(o[1], o[2]),
                        asset |-> NoAsset]] @@ pages
    /\ UNCHANGED <<tpl, certVars, configVars, headVars>>

\* line 68: html-webpack-plugin runs the handlers of
\* html-webpack-plugin-before-html-processing on the page.  The HTML plugins
\* of one compilation make their pages one after the other, in the order of
\* the plugin list; the compilations of the build run side by side.
BeforeHtmlProcessing(o) ==
    /\ o \in DOMAIN pages
    /\ pages[o].stage = "pending"
    /\ \A j \in 1..(o[2] - 1) :
          <<o[1], j>> \in DOMAIN pages => pages[<<o[1], j>>].stage \in {"emitted", "failed"}
    /\ LET r == Waterfall(hooks[o[1]], pages[o].data)
       IN  pages' = [pages EXCEPT ![o].stage = IF r.ok THEN "processed" ELSE "failed",
                                  ![o].data = r.data]
    /\ UNCHANGED <<applied, hooks, tpl, certVars, configVars, headVars>>

\* html-webpack-plugin emits the page under its filename.
Emit(o) ==
    /\ o \in DOMAIN pages
    /\ pages[o].stage = "processed"
    /\ pages' = [pages EXCEPT ![o].stage = "emitted",
                              ![o].asset = [name |-> pages[o].data.outputName,
                                            html |-> pages[o].data.html]]
    /\ UNCHANGED <<applied, hooks, tpl, certVars, configVars, headVars>>

HtmlEnvValues ==
    {EnvOf(n, << <<"/">> >>, g, x, t) :
        n \in NodeEnvValues,
        g \in {Unset, << <<"a">> >>},
        x \in {Unset, <<"1525132800">>},
        t \in {Unset, <<"token">>}}

InitHtml ==
    /\ \E e \in HtmlEnvValues :
          env = [p \in Procs |-> IF p = Main THEN e
                                 ELSE EnvOf(Unset, Unset, Unset, Unset, Unset)]
    /\ pc = [p \in Procs |-> "idle"]
    /\ \E f \in {g \in CertsStates : g.dir = (g.key # NoFile)} :
          /\ certsDir = f.dir
          /\ keyPem = f.key
          /\ certPem = f.cert
    /\ pems = [p \in Procs |-> NoPems]
    /\ key = [p \in Procs |-> NoKey]
    /\ ret = [p \in Procs |-> NoRet]
    /\ ops = [p \in Procs |-> {}]
    /\ doneBefore = [p \in Procs |-> {}]
    /\ config = NoConfig
    /\ exported = NoExport
    /\ applied = {}
    /\ hooks = << >>
    /\ pages = << >>
    /\ tpl \in Templates
    /\ HeadIdle

NextHtml ==
    \/ CertStep(Main)
    \/ BuildConfig
    \/ CallFactory
    \/ \E k \in 1..2 : ApplyPlugins(k)
    \/ \E o \in (1..2) \X (1..3) : BeforeHtmlProcessing(o)
    \/ \E o \in (1..2) \X (1..3) : Emit(o)

\* One webpack process loads webpack.config.js, calls the factory and compiles
\* the pages of every configuration it got.
SpecHtml == InitHtml /\ [][NextHtml]_vars

-----------------------------------------------------------------------------
(* createHTTPSConfig: claims C1, C4, C5, C10, checked under SpecCert *)

NonProduction(p) == env[p].NODE_ENV # <<"production">>

Returned(p) == pc[p] = "done"

WriteCalls == {"generate", "mkdirSync", "writeFileSync"}

\* C1: when a non-production invocation q starts after a non-production
\* invocation p has returned, q makes no generate, mkdir or write call, does
\* not fail, and what it returns has the contents of the key and certificate
\* p returned, which are the contents of certs/key.pem and certs/cert.pem.
C1_SecondInvocationReuses ==
    \A p, q \in Procs :
        (p \in doneBefore[q] /\ NonProduction(p) /\ NonProduction(q)) =>
            /\ ops[q] \cap WriteCalls = {}
            /\ pc[q] # "threw"
            /\ Returned(q) =>
                  /\ ret[q].type = "pair"
                  /\ Contents(ret[q].key) = Contents(ret[p].key)
                  /\ Contents(ret[q].cert) = Contents(ret[p].cert)
                  /\ Contents(ret[q].key) = Contents(keyPem)
                  /\ Contents(ret[q].cert) = Contents(certPem)
                  /\ ret[q].key.part = "private"
                  /\ ret[q].cert.part = "cert"

\* C1 witness: p generated and persisted a pair, q started afterwards and
\* returned.
C1_Witness ==
    \E p, q \in Procs :
        /\ p \in doneBefore[q]
        /\ NonProduction(p) /\ NonProduction(q)
        /\ "writeFileSync" \in ops[p]
        /\ Returned(q)

\* C4 (as claimed): whenever a non-production invocation may start, certs/,
\* if it exists, holds both key.pem and cert.pem.
C4_CertsDirHoldsBothFiles ==
    (\E p \in Procs : pc[p] = "idle" /\ NonProduction(p)) =>
        (certsDir => keyPem # NoFile /\ certPem # NoFile)

C5_ReturnValue ==
    \A p \in Procs :
        /\ ~NonProduction(p) => ops[p] = {}
        /\ Returned(p) =>
              IF NonProduction(p) THEN ret[p].type = "pair" ELSE ret[p] = RetFalse

C5_Frame ==
    \A p \in Procs :
        (~NonProduction(p) /\ pc'[p] # pc[p]) =>
            /\ UNCHANGED <<certsDir, keyPem, certPem>>
            /\ pc'[p] \in {"L13", "done"}

\* C5: a production invocation returns false, makes no call on the file
\* system and none of its steps changes certs/, whether or not certs/
\* exists; an invocation with any other NODE_ENV that returns, returns a
\* key/cert pair and never false.
C5_ProductionBypass == []C5_ReturnValue /\ [][C5_Frame]_vars

\* C5 witness: a production invocation has returned while certs/ exists, and
\* an invocation with NODE_ENV unset has returned.
C5_Witness ==
    \E p, q \in Procs :
        /\ ~NonProduction(p) /\ Returned(p) /\ certsDir /\ doneBefore[p] # {}
        /\ env[q].NODE_ENV = Unset /\ Returned(q)

\* C10: every invocation that returns a pair returns the private key and the
\* certificate of one generated pair, and at most one invocation completes
\* the generate-and-persist path.
C10_PairsConsistent ==
    /\ \A p \in Procs :
          (Returned(p) /\ ret[p].type = "pair") =>
              /\ ret[p].key.part = "private"
              /\ ret[p].cert.part = "cert"
              /\ ret[p].key.pair = ret[p].cert.pair
    /\ Cardinality({p \in Procs : Returned(p) /\ "writeFileSync" \in ops[p]}) <= 1

\* C10 witness: p generated and persisted, q read p's pair back, and a
\* third invocation that raced p lost at mkdirSync.
C10_Witness ==
    \E p, q, r \in Procs :
        /\ Returned(p) /\ "writeFileSync" \in ops[p]
        /\ q # p /\ Returned(q) /\ ret[q].type = "pair" /\ ret[q].key.pair = p
        /\ pc[r] = "threw" /\ "mkdirSync" \in ops[r]

-----------------------------------------------------------------------------
(* The configuration and the factory: claims C2, C3, C6, C8, under SpecConfig *)

Exported == pc[Main] = "exported"

HtmlPluginsOf(c) == {i \in DOMAIN c.plugins : c.plugins[i].class = "HTMLWebpackPlugin"}

ListsChunk(plugin, e) == \E j \in DOMAIN plugin.options.chunks : plugin.options.chunks[j] = e

PageOf(e) ==
    CASE e = "lobby" -> "index.html"
      [] e = "room" -> "room.html"
      [] e = "onboarding" -> "onboarding.html"

\* An HTML output of the build: <<configuration, plugin>>.
HtmlOutputs ==
    {o \in (DOMAIN exported.configs) \X (1..6) : o[2] \in HtmlPluginsOf(exported.configs[o[1]])}

\* C2: in each produced configuration the entries are lobby, room and
\* onboarding; for each entry exactly one HTML plugin lists it in its chunks,
\* that plugin lists nothing else and writes index.html, room.html or
\* onboarding.html respectively (smoke- prefixed in the second configuration);
\* no two HTML outputs of the build have the same filename.
C2_OneHtmlOutputPerEntry ==
    Exported =>
        /\ \A k \in DOMAIN exported.configs :
              LET c == exported.configs[k] IN
              /\ DOMAIN c.entry = {"lobby", "room", "onboarding"}
              /\ \A e \in DOMAIN c.entry :
                    LET hs == {i \in HtmlPluginsOf(c) : ListsChunk(c.plugins[i], e)} IN
                    /\ Cardinality(hs) = 1
                    /\ \A i \in hs :
                          /\ c.plugins[i].options.chunks = <<e>>
                          /\ c.plugins[i].options.filename =
                                (IF k = 2 THEN "smoke-" \o PageOf(e) ELSE PageOf(e))
        /\ \A o1, o2 \in HtmlOutputs :
              o1 # o2 =>
                  exported.configs[o1[1]].plugins[o1[2]].options.filename #
                  exported.configs[o2[1]].plugins[o2[2]].options.filename

\* C2 witness: the factory has returned the normal and the smoke configuration.
C2_Witness == Exported /\ Len(exported.configs) = 2

SetNonEmpty(v) == v # Unset /\ v[1] # << >>

\* The smoke configuration s differs from the normal configuration c in
\* output.publicPath and the HTML filenames only.
SmokeDiffersOnlyInPathAndFilenames(c, s) ==
    /\ DOMAIN s = DOMAIN c
    /\ \A f \in (DOMAIN c) \ {"output", "plugins"} : s[f] = c[f]
    /\ DOMAIN s.output = DOMAIN c.output
    /\ \A f \in (DOMAIN c.output) \ {"publicPath"} : s.output[f] = c.output[f]
    /\ DOMAIN s.plugins = DOMAIN c.plugins
    /\ \A i \in DOMAIN c.plugins :
          IF c.plugins[i].class = "HTMLWebpackPlugin"
          THEN /\ s.plugins[i].class = "HTMLWebpackPlugin"
               /\ DOMAIN s.plugins[i].options = DOMAIN c.plugins[i].options
               /\ \A f \in (DOMAIN c.plugins[i].options) \ {"filename"} :
                     s.plugins[i].options[f] = c.plugins[i].options[f]
               /\ s.plugins[i].options.filename = "smoke-" \o c.plugins[i].options.filename
          ELSE s.plugins[i] = c.plugins[i]

\* C3 (as claimed): when both variables are set the factory returns two
\* configurations, the normal one and the smoke one; when either is unset
\* it returns the normal configuration alone.
C3_TwoConfigsWhenBothSet ==
    Exported =>
        IF env[Main].GENERATE_SMOKE_TESTS # Unset /\ env[Main].BASE_ASSETS_PATH # Unset
        THEN /\ exported.array
             /\ Len(exported.configs) = 2
             /\ exported.configs[1] = config
             /\ SmokeDiffersOnlyInPathAndFilenames(config, exported.configs[2])
        ELSE /\ ~exported.array
             /\ exported.configs = <<config>>

\* C3 (amended): when both variables are set to non-empty strings the
\* factory returns two configurations, the normal one unchanged and the
\* smoke one, which differs in output.publicPath and the HTML filenames
\* only; when either is unset or empty it returns the normal configuration
\* alone.
C3_TwoConfigsWhenBothNonEmpty ==
    Exported =>
        IF SetNonEmpty(env[Main].GENERATE_SMOKE_TESTS)
             /\ SetNonEmpty(env[Main].BASE_ASSETS_PATH)
        THEN /\ exported.array
             /\ Len(exported.configs) = 2
             /\ exported.configs[1] = config
             /\ SmokeDiffersOnlyInPathAndFilenames(config, exported.configs[2])
        ELSE /\ ~exported.array
             /\ exported.configs = <<config>>

\* C3 witness: two configurations whose public paths differ.
C3_Witness ==
    /\ Exported
    /\ Len(exported.configs) = 2
    /\ exported.configs[2].output.publicPath # exported.configs[1].output.publicPath

CssLoaderRules(c) == {i \in DOMAIN c.module.rules : c.module.rules[i].loader = "css-loader"}

\* C6: once the configuration is built, devtool is "source-map", the two
\* css-loader rules (.scss and .css) minimize and devServer.https is false
\* when NODE_ENV is "production"; otherwise devtool is "inline-source-map",
\* neither rule minimizes and devServer.https is a key/cert pair.
C6_NodeEnvToggles ==
    pc[Main] \in {"loaded", "exported"} =>
        /\ {config.module.rules[i].test : i \in CssLoaderRules(config)}
              = {"\\.scss$", "\\.css$"}
        /\ IF env[Main].NODE_ENV = <<"production">>
           THEN /\ config.devtool = "source-map"
                /\ \A i \in CssLoaderRules(config) : config.module.rules[i].minimize
                /\ config.devServer.https = RetFalse
           ELSE /\ config.devtool = "inline-source-map"
                /\ \A i \in CssLoaderRules(config) : ~config.module.rules[i].minimize
                /\ config.devServer.https.type = "pair"
                /\ config.devServer.https.key.part = "private"
                /\ config.devServer.https.cert.part = "cert"

\* C6 witness: a production configuration built while certs/ holds a pair.
C6_Witness ==
    /\ pc[Main] = "loaded"
    /\ env[Main].NODE_ENV = <<"production">>
    /\ keyPem # NoFile

\* s is base with "smoke-" inserted somewhere.
SmokePrefixedForm(s, base) ==
    \E i \in 0..Len(base) :
        s = SubSeq(base, 1, i) \o <<"s", "m", "o", "k", "e", "-">>
              \o SubSeq(base, i + 1, Len(base))

\* C8 (as claimed): whenever the smoke configuration is produced, the normal
\* publicPath is BASE_ASSETS_PATH and the smoke publicPath is a smoke-
\* prefixed form of it, different from the normal one.
C8_SmokePublicPathDiffers ==
    (Exported /\ Len(exported.configs) = 2) =>
        /\ exported.configs[1].output.publicPath = env[Main].BASE_ASSETS_PATH[1]
        /\ SmokePrefixedForm(exported.configs[2].output.publicPath,
                             env[Main].BASE_ASSETS_PATH[1])
        /\ exported.configs[2].output.publicPath # exported.configs[1].output.publicPath

-----------------------------------------------------------------------------
(* The HEAD handler: claim C7, under SpecHead *)

\* C7: once the handlers of devServer.before are through with a request, a
\* HEAD request, whatever its path, has been answered exactly once, with a
\* single Date header holding the time of the answer and an empty body, and
\* has not been passed on; a request with another method has not been
\* answered, its response is untouched, and the later handlers have received
\* it as it arrived.
C7_HeadAnsweredOnce ==
    hpc \in {"answered", "later"} =>
        IF req.method = "HEAD"
        THEN /\ hpc = "answered"
             /\ res.sends = 1
             /\ res.body = <<"">>
             /\ DOMAIN res.headers = {"Date"}
             /\ res.headers["Date"] = <<[gmt |-> now \div TicksPerSecond]>>
             /\ laterReq = NoReq
        ELSE /\ hpc = "later"
             /\ res = FreshRes
             /\ laterReq = req

\* C7 witness: a HEAD request on a page's path answered after time has passed.
C7_Witness ==
    /\ hpc = "answered"
    /\ req.method = "HEAD"
    /\ req.path = "/room.html"
    /\ now >= TicksPerSecond

-----------------------------------------------------------------------------
(* LodashTemplatePlugin: claim C9, under SpecHtml *)

TheImports ==
    [NODE_ENV |-> env[Main].NODE_ENV,
     ORIGIN_TRIAL_EXPIRES |-> env[Main].ORIGIN_TRIAL_EXPIRES,
     ORIGIN_TRIAL_TOKEN |-> env[Main].ORIGIN_TRIAL_TOKEN]

UsesOnlyTheImports(html) ==
    \A i \in DOMAIN html : html[i].t = "interp" => html[i].v \in DOMAIN TheImports

\* The page source with every <%= NAME %> replaced by the value of NAME.
Substituted(html) == Render(html, TheImports)

\* C9: in every compilation of the build, normal or smoke, each HTML plugin
\* has a page; a page past the hook carries the data it was handed, the same
\* object with the same fields, except that html is the source templated with
\* NODE_ENV, ORIGIN_TRIAL_EXPIRES and ORIGIN_TRIAL_TOKEN; the hook fails only
\* on a source that names something else; and what is emitted is the
\* templated html.
C9_HtmlTemplatedBeforeEmit ==
    \A k \in applied :
        /\ hooks[k] = <<[imports |-> TheImports]>>
        /\ \A i \in HtmlPluginsOf(exported.configs[k]) :
              /\ <<k, i>> \in DOMAIN pages
              /\ LET page == pages[<<k, i>>] IN
                 /\ page.stage = "pending" => page.data = HookData(k, i)
                 /\ page.stage = "failed" => ~UsesOnlyTheImports(tpl)
                 /\ page.stage \in {"processed", "emitted"} =>
                       /\ UsesOnlyTheImports(tpl)
                       /\ page.data = [HookData(k, i) EXCEPT !.html = Substituted(tpl)]
                 /\ page.stage = "emitted" =>
                       page.asset = [name |-> HookData(k, i).outputName,
                                     html |-> Substituted(tpl)]
                 /\ page.stage # "emitted" => page.asset = NoAsset

\* C9 witness: a smoke page whose source names the trial token has been
\* emitted while a page of the normal compilation is past the hook.
C9_Witness ==
    /\ applied = {1, 2}
    /\ \E i \in 1..Len(tpl) : tpl[i] = Interp("ORIGIN_TRIAL_TOKEN")
    /\ env[Main].ORIGIN_TRIAL_TOKEN # Unset
    /\ pages[<<2, 1>>].stage = "emitted"
    /\ pages[<<1, 2>>].stage = "processed"

=============================================================================
